---------------------------- MODULE Spec2Model ----------------------------
(***************************************************************************)
(* Draft Turn Engine of fantasyblock: the routes of one draft.             *)
(*                                                                         *)
(*   POST   /api/drafts/[id]/picks   make a pick       (MakePick)   Spec   *)
(*   DELETE /api/drafts/[id]/picks   undo the last pick (UndoLastPick)     *)
(*          the same routes on a draft one pick short of full  SpecFinal   *)
(*   PATCH  /api/drafts/[id]         update the draft         SpecUpdate   *)
(*   every route, called by the owner and by another user      SpecOwner   *)
(*   GET    /api/drafts/[id]/recommendations  (GetRecommendations) SpecRec *)
(*          with fair handler steps, with a caller who aborts:             *)
(*                                          SpecRecFair, SpecRecCancel     *)
(*          its plan check and rate limit           SpecGate, SpecKeys     *)
(*   analyzeRoster of the recommendation engine               SpecRoster   *)
(*   the draft room page's board of a snake draft              SpecBoard   *)
(*                                                                         *)
(* Each route handler is a sequence of awaited database statements; the    *)
(* handlers run request-parallel with no transaction around them, so       *)
(* every awaited statement is one atomic step and the steps of different   *)
(* requests interleave.  The tables drafts and draft_picks carry no        *)
(* uniqueness constraint besides the primary key id.                       *)
(***************************************************************************)
EXTENDS Integers, FiniteSets, Sequences, TLC

(***************************************************************************)
(* Bounds of the model.                                                    *)
(***************************************************************************)
NumReqs == 2            \* request slots handled concurrently
NumPlayers == 2         \* rows of the players table
MaxInserts == 2         \* draft_picks rows inserted in one behaviour
MaxPickArg == 2         \* early pickNumbers a caller sends: 1..MaxPickArg
MaxRoundArg == 2        \* rounds a caller sends: 1..MaxRoundArg
MaxTeamArg == 2         \* teamNumbers a caller sends: 1..MaxTeamArg
MaxDraftPosition == 1   \* draftPosition given at creation: 1..MaxDraftPosition
MaxNumTeams == 5        \* numTeams of an updated draft: MinTeams..MaxNumTeams
NumNbaPlayers == 3      \* rows of players of the draft's sport (one more of another)
MaxAdp == 1             \* adp of a players row: null or 0..MaxAdp
MaxRecs == 2            \* recommendations in one answer of the provider
NumGateReqs == 2        \* recommendation requests of one user at the gates
MaxWindows == 2         \* the clock is read at the edges of windows 0..MaxWindows
NumUsers == 2           \* users with a session: 1..NumUsers
MaxOtherCalls == 2      \* calls another key of the limiter gets in one window
MaxOfPosition == 2      \* players of one position on a roster: 0..MaxOfPosition

(***************************************************************************)
(* Program constants: the smallest league the create schema admits.        *)
(***************************************************************************)
MinTeams == 4
MinRosterSize == 5
MaxTeams == 20          \* the largest league the create schema admits

(***************************************************************************)
(* Program constants of the draft room page (its mock league).             *)
(***************************************************************************)
pageNumTeams == 12      \* const numTeams
numRounds == 16
userTeamIndex == 5

(***************************************************************************)
(* Program constants of the recommendation engine.                         *)
(***************************************************************************)
MaxRecommendations == 5 \* slice(0, 5)
NoAdpRank == 999        \* a.adp || 999
DefaultScore == 75      \* rec.score || 75
BestAvailableScore == 70
TopScore == 80          \* 80 - index * 5
ScoreStep == 5

(***************************************************************************)
(* Program constants of the AI rate limiter.                               *)
(***************************************************************************)
windowMs == 60000       \* aiRateLimit
maxRequests == 20
apiWindowMs == 60000    \* apiRateLimit
apiMaxRequests == 100

Reqs == 1..NumReqs
Users == 1..NumUsers
GateReqs == 1..NumGateReqs
Players == 1..NumPlayers
DraftTypes == {"snake", "auction", "linear"}

VARIABLES
    draft,       \* the drafts row
    draftPicks,  \* the draft_picks rows of the draft
    nextId,      \* ids handed out so far by gen_random_uuid (as a counter)
    clients,     \* the request bodies the callers of this behaviour send
    pc,          \* per request: the awaited statement it is about to run
    pickData,    \* per request: the validated body of a POST
    snap,        \* per request: the drafts row as the POST read it
    lastPick,    \* per request: the row a DELETE read as the last pick
    response,    \* per request: the response of its latest request
    trip,        \* history: a MakePick then UndoLastPick run with nothing between
    updateData,  \* per request: the validated body of a PATCH
    board,       \* draft room page: the board its mount effect is building
    boardRound,  \* draft room page: loop variable round of the mount effect
    boardPick,   \* draft room page: loop variable pick of the mount effect
    draftBoard,  \* draft room page: the draftBoard state
    players,     \* the players table
    provider,    \* whether an AI provider key is configured
    recPc,       \* recommendations request: the awaited call it is about to run
    recDraft,    \* recommendations request: the drafts row it read
    picksWithPlayers,  \* recommendations request: the picks it read, joined
    context,     \* recommendations request: the DraftContext given to the engine
    text,        \* recommendations request: the provider's answer
    result,      \* recommendations request: the RecommendationsResult returned
    path,        \* history: the way the engine took to its result
    cancelled,   \* recommendations request: its caller has aborted it
    gatePc,      \* per request at the gates: the await it is suspended at
    gateResponse,  \* per request at the gates: the response of its latest run
    rateLimitStore,  \* the limiter's Map: key -> entry
    now,         \* Date.now()
    window,      \* history: the window in force and the requests it admitted
    session      \* per request: the user of its session (0: none yet)

boardVars == <<board, boardRound, boardPick, draftBoard>>

recVars ==
    <<players, provider, recPc, recDraft, picksWithPlayers, context, text,
      result, path, cancelled>>

gateVars == <<gatePc, gateResponse, rateLimitStore, now, window>>

\* what the pick routes leave alone: the other routes' and pages' variables
others == <<updateData, boardVars, recVars, gateVars, session>>

vars ==
    <<draft, draftPicks, nextId, clients, pc, pickData, snap, lastPick, response,
      trip, updateData, boardVars, recVars, gateVars, session>>

NoPickData ==
    [playerId |-> 0, teamNumber |-> 0, round |-> 0, pickNumber |-> 0,
     pickInRound |-> 0, isUserPick |-> FALSE]

NoPick ==
    [id |-> 0, playerId |-> 0, teamNumber |-> 0, round |-> 0, pickNumber |-> 0,
     pickInRound |-> 0, isUserPick |-> FALSE]

NoSnap == [numTeams |-> 0, rosterSize |-> 0]

\* a null column of a row
Null == -1

\* full_name and position of the players rows, by id
fullNameOf(id) ==
    CASE id = 1 -> <<"A", "l">>
      [] id = 2 -> <<"A", "l", "i">>
      [] OTHER -> <<"B", "o">>

positionOf(id) ==
    CASE id = 1 -> "PG"
      [] id = 2 -> "PG"
      [] OTHER -> ""

\* a row of players: the first NumNbaPlayers are of the draft's sport
playerRow(id, adp) ==
    [id |-> id,
     sport |-> IF id <= NumNbaPlayers THEN "NBA" ELSE "NFL",
     fullName |-> fullNameOf(id),
     position |-> positionOf(id),
     adp |-> adp]

NoContext == [availablePlayers |-> <<>>, userRoster |-> {}, currentPick |-> 0,
              userTeamNumber |-> 0]

\* the answer of a provider; "" and <<>> stand for a key it does not carry
NoText == [kind |-> "none", recommendations |-> <<>>, strategy |-> "",
           rosterNeeds |-> <<>>]

\* rateLimitStore.get(key) of a key the Map does not hold (an entry counts
\* from 1)
NoEntry == [count |-> 0, resetTime |-> 0]

NoWindow == [end |-> 0, admitted |-> 0]

NoResult == [recommendations |-> <<>>, strategy |-> "",
             rosterAnalysis |-> [strengths |-> <<>>, needs |-> <<>>]]

\* a PATCH body; 0 and "" stand for a key the body does not carry
NoUpdateData ==
    [numTeams |-> 0, draftPosition |-> 0, status |-> "", currentRound |-> 0,
     currentPick |-> 0]

(***************************************************************************)
(* History variable trip follows one successful MakePick that runs alone   *)
(* (no other request in flight from its first statement to its response)   *)
(* and the UndoLastPick that runs alone as the very next request.  It      *)
(* keeps the draft counters the MakePick read, its pickNumber and round,   *)
(* and the id of the row it inserted.  stage: none -> pick -> picked ->    *)
(* undo -> undone.  No action reads trip except to update it.              *)
(***************************************************************************)
NoTrip ==
    [stage |-> "none", id |-> 0, currentPick |-> 0, currentRound |-> 0,
     pickNumber |-> 0, round |-> 0]

Alone(r) == \A q \in Reqs \ {r} : pc[q] = "idle"

TripStage(from, to) ==
    trip' = IF trip.stage = from THEN [trip EXCEPT !.stage = to] ELSE trip

(***************************************************************************)
(* Pick order.  roundOf and seat are the pick-order function of the        *)
(* specification; teamIndex is the draft board of the draft room page      *)
(* (0-based seat of the pick-th pick of a round of a snake draft).         *)
(***************************************************************************)
roundOf(pickNumber, numTeams) == (pickNumber + numTeams - 1) \div numTeams

\* a board that runs every round in the same direction
teamIndexSameWay(round, pick, numTeams) == pick - 1

teamIndex(round, pick, numTeams) ==
    IF round % 2 = 1 THEN pick - 1 ELSE numTeams - pick

seat(draftType, numTeams, pickNumber) ==
    LET round == roundOf(pickNumber, numTeams)
        pickInRound == pickNumber - (round - 1) * numTeams
    IN  IF draftType = "snake"
        THEN teamIndex(round, pickInRound, numTeams) + 1
        ELSE pickInRound

(***************************************************************************)
(* Request bodies that pass makePickSchema (every field an integer >= 1,   *)
(* teamNumber <= 20, playerId a uuid).  The schema admits any such body;   *)
(* a behaviour draws its bodies from one of five families, so that the     *)
(* families add up instead of multiplying:                                 *)
(*   TurnBodies      first-round picks in seat order, any player, also a   *)
(*                   uuid (NumPlayers + 1) that names no row of players    *)
(*   SeatBodies      any teamNumber and isUserPick flag for a pick         *)
(*   BoundaryBodies  the last pick of round 1 and the first of round 2     *)
(*   FinalBodies     the first pick and the final slot of the league       *)
(*   LeagueBodies    the first pick for the last seat of the league and    *)
(*                   for the seat after it                                 *)
(***************************************************************************)
Body(playerId, pickNumber, round, teamNumber, isUserPick) ==
    [playerId |-> playerId, teamNumber |-> teamNumber, round |-> round,
     pickNumber |-> pickNumber, pickInRound |-> 1, isUserPick |-> isUserPick]

TurnBodies ==
    {Body(pl, pn, 1, pn, u) :
        pl \in 1..(NumPlayers + 1), pn \in 1..MaxPickArg, u \in BOOLEAN}

SeatBodies ==
    {Body(pl, pl, 1, t, u) : pl \in Players, t \in 1..MaxTeamArg, u \in BOOLEAN}

BoundaryBodies ==
    {Body(pl, pn, rd, 1, TRUE) :
        pl \in Players, pn \in {MinTeams, MinTeams + 1}, rd \in 1..MaxRoundArg}

FinalBodies ==
    {Body(pl, pn, 1, 1, u) :
        pl \in Players, pn \in {1, MinTeams * MinRosterSize}, u \in BOOLEAN}

LeagueBodies ==
    {Body(pl, 1, 1, t, FALSE) : pl \in Players, t \in {MinTeams, MinTeams + 1}}

makePickSchema ==
    {TurnBodies, SeatBodies, BoundaryBodies, FinalBodies, LeagueBodies}

(***************************************************************************)
(* Rows of draft_picks selected by the handlers.                           *)
(***************************************************************************)
existingPick(playerId) == {p \in draftPicks : p.playerId = playerId}

\* ORDER BY pick_number DESC LIMIT 1: any row carrying the largest pickNumber
lastPickRows ==
    {p \in draftPicks : \A q \in draftPicks : q.pickNumber <= p.pickNumber}

newPick(r) ==
    [id |-> nextId,
     playerId |-> pickData[r].playerId,
     teamNumber |-> pickData[r].teamNumber,
     round |-> pickData[r].round,
     pickNumber |-> pickData[r].pickNumber,
     pickInRound |-> pickData[r].pickInRound,
     isUserPick |-> pickData[r].isUserPick]

totalPicks(r) == snap[r].numTeams * snap[r].rosterSize

\* no request is being handled
RequestsIdle ==
    /\ pc = [r \in Reqs |-> "idle"]
    /\ pickData = [r \in Reqs |-> NoPickData]
    /\ snap = [r \in Reqs |-> NoSnap]
    /\ lastPick = [r \in Reqs |-> NoPick]
    /\ updateData = [r \in Reqs |-> NoUpdateData]
    /\ response = [r \in Reqs |-> "none"]
    /\ trip = NoTrip
    /\ session = [r \in Reqs |-> 0]

\* no recommendations request is being handled
RecIdle ==
    /\ provider = FALSE
    /\ recPc = "idle"
    /\ recDraft = NoSnap
    /\ picksWithPlayers = {}
    /\ context = NoContext
    /\ text = NoText
    /\ result = NoResult
    /\ path = "none"
    /\ cancelled = FALSE

\* no request is at the gates and the limiter's Map is empty
GateIdle ==
    /\ gatePc = [r \in GateReqs |-> "idle"]
    /\ gateResponse = [r \in GateReqs |-> "none"]
    /\ rateLimitStore = <<>>
    /\ now = 0
    /\ window = NoWindow

\* the draft room page is not mounted yet
BoardIdle ==
    /\ board = <<>>
    /\ boardRound = 1
    /\ boardPick = 1
    /\ draftBoard = <<>>

Init ==
    /\ draft \in [status : {"setup"}, currentRound : {1}, currentPick : {1},
                  numTeams : {MinTeams}, rosterSize : {MinRosterSize},
                  draftPosition : 1..MaxDraftPosition, draftType : DraftTypes, sport : {"NBA"}]
    /\ draftPicks = {}
    /\ nextId = 1
    /\ clients \in makePickSchema
    /\ players = {playerRow(i, Null) : i \in Players}
    /\ RequestsIdle
    /\ BoardIdle
    /\ RecIdle
    /\ GateIdle

\* the handler returns: its locals go out of scope
Respond(r, kind) ==
    /\ pc' = [pc EXCEPT ![r] = "idle"]
    /\ pickData' = [pickData EXCEPT ![r] = NoPickData]
    /\ snap' = [snap EXCEPT ![r] = NoSnap]
    /\ lastPick' = [lastPick EXCEPT ![r] = NoPick]
    /\ response' = [response EXCEPT ![r] = kind]

(***************************************************************************)
(* POST: select the draft, check its status, validate the body, select     *)
(* the player.  The players table does not change, so its select is taken  *)
(* together with the select of the draft.                                  *)
(***************************************************************************)
PostSelectDraft(r) ==
    /\ pc[r] = "idle"
    /\ \E body \in clients :
        IF draft.status = "completed"
        THEN /\ Respond(r, "DraftComplete")
             /\ trip' = NoTrip
        ELSE IF body.playerId \notin Players
        THEN /\ Respond(r, "PlayerNotFound")
             /\ trip' = NoTrip
        ELSE /\ pc' = [pc EXCEPT ![r] = "selectExistingPick"]
             /\ pickData' = [pickData EXCEPT ![r] = body]
             /\ snap' = [snap EXCEPT ![r] =
                    [numTeams |-> draft.numTeams, rosterSize |-> draft.rosterSize]]
             /\ response' = [response EXCEPT ![r] = "none"]
             /\ trip' = IF Alone(r)
                        THEN [stage |-> "pick", id |-> 0,
                              currentPick |-> draft.currentPick,
                              currentRound |-> draft.currentRound,
                              pickNumber |-> body.pickNumber, round |-> body.round]
                        ELSE NoTrip
             /\ UNCHANGED lastPick
    /\ UNCHANGED <<draft, draftPicks, nextId, clients, others>>

\* POST: check if the player is already drafted
PostSelectExistingPick(r) ==
    /\ pc[r] = "selectExistingPick"
    /\ IF existingPick(pickData[r].playerId) # {}
       THEN /\ Respond(r, "AlreadyDrafted")
            /\ trip' = NoTrip
       ELSE /\ pc' = [pc EXCEPT ![r] = "insertPick"]
            /\ UNCHANGED <<pickData, snap, lastPick, response, trip>>
    /\ UNCHANGED <<draft, draftPicks, nextId, clients, others>>

\* POST: create the pick
PostInsertPick(r) ==
    /\ pc[r] = "insertPick"
    /\ nextId <= MaxInserts
    /\ draftPicks' = draftPicks \cup {newPick(r)}
    /\ nextId' = nextId + 1
    /\ pc' = [pc EXCEPT ![r] = "updateDraft"]
    /\ trip' = IF trip.stage = "pick" THEN [trip EXCEPT !.id = nextId] ELSE trip
    /\ UNCHANGED <<draft, clients, pickData, snap, lastPick, response, others>>

\* POST: update draft state
PostUpdateDraft(r) ==
    /\ pc[r] = "updateDraft"
    /\ draft' = [draft EXCEPT !.status = "in_progress",
                              !.currentRound = pickData[r].round,
                              !.currentPick = pickData[r].pickNumber + 1]
    /\ IF pickData[r].pickNumber >= totalPicks(r)
       THEN /\ pc' = [pc EXCEPT ![r] = "completeDraft"]
            /\ UNCHANGED <<pickData, snap, lastPick, response, trip>>
       ELSE /\ Respond(r, "Created")
            /\ TripStage("pick", "picked")
    /\ UNCHANGED <<draftPicks, nextId, clients, others>>

\* POST: the draft is complete
PostCompleteDraft(r) ==
    /\ pc[r] = "completeDraft"
    /\ draft' = [draft EXCEPT !.status = "completed"]
    /\ Respond(r, "Created")
    /\ TripStage("pick", "picked")
    /\ UNCHANGED <<draftPicks, nextId, clients, others>>

(***************************************************************************)
(* DELETE: select the draft (it exists and is the user's), then the last   *)
(* pick.  Nothing of the drafts row is used afterwards, so the two         *)
(* selects are one step.                                                   *)
(***************************************************************************)
UndoSelectLastPick(r) ==
    /\ pc[r] = "idle"
    /\ IF draftPicks = {}
       THEN /\ Respond(r, "NoPicksToUndo")
            /\ trip' = NoTrip
       ELSE \E p \in lastPickRows :
            IF ~p.isUserPick
            THEN /\ Respond(r, "ForbiddenUndo")
                 /\ trip' = NoTrip
            ELSE /\ pc' = [pc EXCEPT ![r] = "deletePick"]
                 /\ lastPick' = [lastPick EXCEPT ![r] = p]
                 /\ response' = [response EXCEPT ![r] = "none"]
                 /\ trip' = IF Alone(r) /\ trip.stage = "picked"
                            THEN [trip EXCEPT !.stage = "undo"]
                            ELSE NoTrip
                 /\ UNCHANGED <<pickData, snap>>
    /\ UNCHANGED <<draft, draftPicks, nextId, clients, others>>

\* DELETE: delete the pick, by id
UndoDeletePick(r) ==
    /\ pc[r] = "deletePick"
    /\ draftPicks' = {p \in draftPicks : p.id # lastPick[r].id}
    /\ pc' = [pc EXCEPT ![r] = "undoUpdateDraft"]
    /\ UNCHANGED <<draft, nextId, clients, pickData, snap, lastPick, response,
                   trip, others>>

\* DELETE: update draft state
UndoUpdateDraft(r) ==
    /\ pc[r] = "undoUpdateDraft"
    /\ draft' = [draft EXCEPT
            !.status = IF lastPick[r].pickNumber = 1 THEN "setup" ELSE "in_progress",
            !.currentRound = lastPick[r].round,
            !.currentPick = lastPick[r].pickNumber]
    /\ Respond(r, "Undone")
    /\ TripStage("undo", "undone")
    /\ UNCHANGED <<draftPicks, nextId, clients, others>>

Next ==
    \E r \in Reqs :
        \/ PostSelectDraft(r)
        \/ PostSelectExistingPick(r)
        \/ PostInsertPick(r)
        \/ PostUpdateDraft(r)
        \/ PostCompleteDraft(r)
        \/ UndoSelectLastPick(r)
        \/ UndoDeletePick(r)
        \/ UndoUpdateDraft(r)

Spec == Init /\ [][Next]_vars

(***************************************************************************)
(* PATCH /api/drafts/[id]: update a draft.  Bodies that pass               *)
(* updateDraftSchema: every key is optional; a behaviour's bodies change   *)
(* the league (numTeams, draftPosition) or the counters (status,           *)
(* currentRound, currentPick).  leagueName, scoringType, rosterSize and    *)
(* settings are written the same way and read by nothing here.             *)
(***************************************************************************)
SeatUpdates ==
    [numTeams : {0} \cup MinTeams..MaxNumTeams,
     draftPosition : 0..MaxNumTeams,
     status : {""}, currentRound : {0}, currentPick : {0}]

CounterUpdates ==
    [numTeams : {0}, draftPosition : {0},
     status : {"", "setup", "in_progress", "completed"},
     currentRound : {0, MaxRoundArg},
     currentPick : {0, MaxPickArg}]

updateDraftSchema == SeatUpdates \cup CounterUpdates

\* db.update(drafts).set(updateData): the keys the body carries
setUpdateData(row, u) ==
    [row EXCEPT
        !.numTeams = IF u.numTeams # 0 THEN u.numTeams ELSE @,
        !.draftPosition = IF u.draftPosition # 0 THEN u.draftPosition ELSE @,
        !.status = IF u.status # "" THEN u.status ELSE @,
        !.currentRound = IF u.currentRound # 0 THEN u.currentRound ELSE @,
        !.currentPick = IF u.currentPick # 0 THEN u.currentPick ELSE @]

\* select the draft, validate the body, check the draft position
PatchSelectDraft(r) ==
    /\ pc[r] = "idle"
    /\ \E u \in updateDraftSchema :
          LET numTeams == IF u.numTeams # 0 THEN u.numTeams ELSE draft.numTeams
              draftPosition == IF u.draftPosition # 0 THEN u.draftPosition
                               ELSE draft.draftPosition
          IN  IF draftPosition > numTeams
              THEN /\ Respond(r, "BadRequest")
                   /\ UNCHANGED updateData
              ELSE /\ pc' = [pc EXCEPT ![r] = "patchUpdateDraft"]
                   /\ updateData' = [updateData EXCEPT ![r] = u]
                   /\ UNCHANGED <<pickData, snap, lastPick, response>>
    /\ UNCHANGED <<draft, draftPicks, nextId, clients, trip, boardVars, recVars,
                   gateVars, session>>

\* update the drafts row; a body with no key makes the query builder throw
PatchUpdateDraft(r) ==
    /\ pc[r] = "patchUpdateDraft"
    /\ IF updateData[r] = NoUpdateData
       THEN /\ Respond(r, "UpdateFailed")
            /\ UNCHANGED draft
       ELSE /\ draft' = setUpdateData(draft, updateData[r])
            /\ Respond(r, "Updated")
    /\ updateData' = [updateData EXCEPT ![r] = NoUpdateData]
    /\ UNCHANGED <<draftPicks, nextId, clients, trip, boardVars, recVars,
                   gateVars, session>>

\* a draft as created, with any admitted league size, and no pick request
InitUpdate ==
    /\ draft \in [status : {"setup"}, currentRound : {1}, currentPick : {1},
                  numTeams : MinTeams..MaxNumTeams, rosterSize : {MinRosterSize},
                  draftPosition : 1..MaxDraftPosition, draftType : {"snake"}, sport : {"NBA"}]
    /\ draftPicks = {}
    /\ nextId = 1
    /\ clients = {}
    /\ players = {playerRow(i, Null) : i \in Players}
    /\ RequestsIdle
    /\ BoardIdle
    /\ RecIdle
    /\ GateIdle

NextUpdate ==
    \E r \in Reqs :
        \/ PatchSelectDraft(r)
        \/ PatchUpdateDraft(r)

SpecUpdate == InitUpdate /\ [][NextUpdate]_vars

(***************************************************************************)
(* Ownership.  Every handler of a draft route first awaits the session,    *)
(* then selects (DELETE: deletes) the drafts row WHERE id = draftId AND     *)
(* user_id = the session's user, and answers 404 when no row comes back.   *)
(* The requests of one connection, one after the other, by any user; the   *)
(* recommendations request from its select of the draft on, the rest of    *)
(* its handler only reading.                                               *)
(***************************************************************************)
\* drafts.user_id of the draft
DraftUserId == 1

\* the drafts row after DELETE /api/drafts/[id]: none
NoDraft ==
    [status |-> "deleted", currentRound |-> 0, currentPick |-> 0, numTeams |-> 0,
     rosterSize |-> 0, draftPosition |-> 0, draftType |-> "", sport |-> ""]

OwnerReqs == {1}

\* a select of the draft by its id alone
selectDraftById(userId) == IF draft # NoDraft THEN <<draft>> ELSE <<>>

\* .where(and(eq(drafts.id, draftId), eq(drafts.userId, userId)))
selectDraft(userId) ==
    IF draft # NoDraft /\ userId = DraftUserId THEN <<draft>> ELSE <<>>

\* auth.api.getSession: the request of a signed-in user starts
GetSession(r) ==
    /\ pc[r] = "idle"
    /\ \E userId \in Users : session' = [session EXCEPT ![r] = userId]
    /\ UNCHANGED <<draft, draftPicks, nextId, clients, pc, pickData, snap,
                   lastPick, response, trip, updateData, boardVars, recVars,
                   gateVars>>

\* if (!draft) return 404 'Draft not found'
DraftNotFound(r) ==
    /\ pc[r] = "idle"
    /\ Respond(r, "DraftNotFound")
    /\ UNCHANGED <<draft, draftPicks, nextId, clients, trip, others>>

\* POST /api/drafts/[id]/picks
OwnerMakePick(r) ==
    /\ session[r] # 0
    /\ IF selectDraft(session[r]) = <<>> THEN DraftNotFound(r)
       ELSE PostSelectDraft(r)

\* DELETE /api/drafts/[id]/picks
OwnerUndo(r) ==
    /\ session[r] # 0
    /\ IF selectDraft(session[r]) = <<>> THEN DraftNotFound(r)
       ELSE UndoSelectLastPick(r)

\* PATCH /api/drafts/[id]
OwnerUpdate(r) ==
    /\ session[r] # 0
    /\ IF selectDraft(session[r]) = <<>> THEN DraftNotFound(r)
       ELSE PatchSelectDraft(r)

\* DELETE /api/drafts/[id]: delete ... returning; the picks go by cascade
OwnerDelete(r) ==
    /\ session[r] # 0
    /\ IF selectDraft(session[r]) = <<>> THEN DraftNotFound(r)
       ELSE /\ pc[r] = "idle"
            /\ draft' = NoDraft
            /\ draftPicks' = {}
            /\ Respond(r, "Deleted")
            /\ UNCHANGED <<nextId, clients, trip, others>>

\* GET /api/drafts/[id]/recommendations
OwnerRecommend(r) ==
    /\ session[r] # 0
    /\ IF selectDraft(session[r]) = <<>> THEN DraftNotFound(r)
       ELSE /\ pc[r] = "idle"
            /\ Respond(r, "Recommendations")
            /\ UNCHANGED <<draft, draftPicks, nextId, clients, trip, others>>

\* a draft as created; the callers send the first pick and the final slot
InitOwner ==
    /\ draft \in [status : {"setup"}, currentRound : {1}, currentPick : {1},
                  numTeams : {MinTeams}, rosterSize : {MinRosterSize},
                  draftPosition : 1..MaxDraftPosition, draftType : {"snake"},
                  sport : {"NBA"}]
    /\ draftPicks = {}
    /\ nextId = 1
    /\ clients = {Body(1, 1, 1, 1, TRUE),
                   Body(NumPlayers, MinTeams * MinRosterSize, 1, 1, TRUE)}
    /\ players = {playerRow(i, Null) : i \in Players}
    /\ RequestsIdle
    /\ BoardIdle
    /\ RecIdle
    /\ GateIdle

NextOwner ==
    \E r \in OwnerReqs :
        \/ GetSession(r)
        \/ OwnerMakePick(r)
        \/ OwnerUndo(r)
        \/ OwnerUpdate(r)
        \/ OwnerDelete(r)
        \/ OwnerRecommend(r)
        \/ PostSelectExistingPick(r)
        \/ PostInsertPick(r)
        \/ PostUpdateDraft(r)
        \/ PostCompleteDraft(r)
        \/ UndoDeletePick(r)
        \/ UndoUpdateDraft(r)
        \/ PatchUpdateDraft(r)

SpecOwner == InitOwner /\ [][NextOwner]_vars

(***************************************************************************)
(* Draft room page: the effect run on mount builds the board of a snake    *)
(* draft, one entry per pass of its inner loop, then stores it in the      *)
(* draftBoard state.                                                       *)
(***************************************************************************)
BoardPush ==
    /\ boardRound <= numRounds
    /\ board' = Append(board,
                       [round |-> boardRound,
                        pick |-> (boardRound - 1) * pageNumTeams + boardPick,
                        teamIndex |-> teamIndex(boardRound, boardPick, pageNumTeams)])
    /\ IF boardPick < pageNumTeams
       THEN /\ boardPick' = boardPick + 1
            /\ UNCHANGED boardRound
       ELSE /\ boardPick' = 1
            /\ boardRound' = boardRound + 1
    /\ UNCHANGED <<draft, draftPicks, nextId, clients, pc, pickData, snap,
                   lastPick, response, trip, updateData, draftBoard, recVars,
                   gateVars, session>>

SetDraftBoard ==
    /\ boardRound > numRounds
    /\ draftBoard = <<>>
    /\ draftBoard' = board
    /\ UNCHANGED <<draft, draftPicks, nextId, clients, pc, pickData, snap,
                   lastPick, response, trip, updateData, board, boardRound,
                   boardPick, recVars, gateVars, session>>

\* draftBoard.find(pick => pick.pick === currentPick)?.teamIndex === userTeamIndex
isUserTurn(currentPick) ==
    /\ \E i \in DOMAIN draftBoard : draftBoard[i].pick = currentPick
    /\ LET first == CHOOSE i \in DOMAIN draftBoard :
                        /\ draftBoard[i].pick = currentPick
                        /\ \A j \in 1..(i - 1) : draftBoard[j].pick # currentPick
       IN  draftBoard[first].teamIndex = userTeamIndex

InitBoard ==
    /\ draft \in [status : {"setup"}, currentRound : {1}, currentPick : {1},
                  numTeams : {MinTeams}, rosterSize : {MinRosterSize},
                  draftPosition : 1..MaxDraftPosition, draftType : {"snake"}, sport : {"NBA"}]
    /\ draftPicks = {}
    /\ nextId = 1
    /\ clients = {}
    /\ players = {playerRow(i, Null) : i \in Players}
    /\ RequestsIdle
    /\ BoardIdle
    /\ RecIdle
    /\ GateIdle

NextBoard ==
    \/ BoardPush
    \/ SetDraftBoard

SpecBoard == InitBoard /\ [][NextBoard]_vars

(***************************************************************************)
(* GET /api/drafts/[id]/recommendations, from the select of the draft on   *)
(* (the request has passed the session, plan and rate-limit checks), and   *)
(* the recommendation engine it calls.  A recommendation is modelled by    *)
(* its playerId, playerName, score and tags; position, team and reasoning  *)
(* are copied next to them and read by nothing.  A name is the sequence    *)
(* of its characters.                                                      *)
(***************************************************************************)
PlayerIds == 1..(NumNbaPlayers + 1)

PlayerTables ==
    {{playerRow(i, IF i <= NumNbaPlayers THEN adp[i] ELSE 1) : i \in PlayerIds} :
        adp \in [1..NumNbaPlayers -> {Null} \cup 0..MaxAdp]}

\* the draft and its picks after the players of drafted were picked in turn
pickedRows(drafted, row) ==
    {[id |-> n, playerId |-> k, pickNumber |-> n,
      round |-> roundOf(n, row.numTeams),
      pickInRound |-> n - (roundOf(n, row.numTeams) - 1) * row.numTeams,
      teamNumber |-> seat(row.draftType, row.numTeams, n),
      isUserPick |-> seat(row.draftType, row.numTeams, n) = row.draftPosition]
     : <<k, n>> \in {<<j, Cardinality({i \in drafted : i <= j})>> : j \in drafted}}

Lower(c) ==
    CASE c = "A" -> "a"
      [] c = "B" -> "b"
      [] c = "Z" -> "z"
      [] OTHER -> c

toLowerCase(str) == [i \in 1..Len(str) |-> Lower(str[i])]

includes(str, sub) ==
    \E i \in 1..(Len(str) - Len(sub) + 1) : SubSeq(str, i, i + Len(sub) - 1) = sub

\* the orders in which a select with no ORDER BY may return rows
Orderings(rows) ==
    {q \in [1..Cardinality(rows) -> rows] :
        \A i, j \in 1..Cardinality(rows) : i # j => q[i] # q[j]}

slice(seq, n) == SubSeq(seq, 1, IF Len(seq) < n THEN Len(seq) ELSE n)

\* (a.adp || 999) of the sort comparator
adpRank(player) == IF player.adp = 0 THEN NoAdpRank ELSE player.adp

\* Array.prototype.sort is stable: a row goes after the rows not ranked behind it
RECURSIVE sortByAdp(_)
sortByAdp(seq) ==
    IF seq = <<>> THEN <<>>
    ELSE LET front == sortByAdp(SubSeq(seq, 1, Len(seq) - 1))
             last == seq[Len(seq)]
             n == Cardinality({i \in DOMAIN front : adpRank(front[i]) <= adpRank(last)})
         IN  SubSeq(front, 1, n) \o <<last>> \o SubSeq(front, n + 1, Len(front))

\* filter(p => p.adp !== null).sort(...).slice(0, 5)
topPlayers(availablePlayers) ==
    slice(sortByAdp(SelectSeq(availablePlayers, LAMBDA p : p.adp # Null)),
          MaxRecommendations)

IDEAL_ROSTER_COMPOSITION == [PG |-> 2, SG |-> 2, SF |-> 2, PF |-> 2, C |-> 2]

IdealPositions == <<"PG", "SG", "SF", "PF", "C">>

\* an analysis that flags a position as soon as it is one short
analyzeRosterOneShort(roster) ==
    LET count(pos) ==
            Cardinality({e \in roster :
                (IF e.player.position = "" THEN "UTIL" ELSE e.player.position) = pos})
        strong == SelectSeq(IdealPositions,
                            LAMBDA pos : count(pos) >= IDEAL_ROSTER_COMPOSITION[pos])
        weak == SelectSeq(IdealPositions,
                          LAMBDA pos : count(pos) < IDEAL_ROSTER_COMPOSITION[pos])
    IN  [strengths |-> [i \in 1..Len(strong) |->
                           [pos |-> strong[i], count |-> count(strong[i])]],
         needs |-> IF weak = <<>> THEN <<"Roster is well-balanced">>
                   ELSE [i \in 1..Len(weak) |->
                            [pos |-> weak[i], have |-> count(weak[i]),
                             need |-> IDEAL_ROSTER_COMPOSITION[weak[i]]]]]

\* roster: the user's picks with their players, one entry per pick
analyzeRoster(roster) ==
    LET count(pos) ==
            Cardinality({e \in roster :
                (IF e.player.position = "" THEN "UTIL" ELSE e.player.position) = pos})
        strong == SelectSeq(IdealPositions,
                            LAMBDA pos : count(pos) >= IDEAL_ROSTER_COMPOSITION[pos])
        weak == SelectSeq(IdealPositions,
                          LAMBDA pos : count(pos) < IDEAL_ROSTER_COMPOSITION[pos] - 1)
    IN  [strengths |-> [i \in 1..Len(strong) |->
                           [pos |-> strong[i], count |-> count(strong[i])]],
         needs |-> IF weak = <<>> THEN <<"Roster is well-balanced">>
                   ELSE [i \in 1..Len(weak) |->
                            [pos |-> weak[i], have |-> count(weak[i]),
                             need |-> IDEAL_ROSTER_COMPOSITION[weak[i]]]]]

getFallbackRecommendations(ctx) ==
    LET top == topPlayers(ctx.availablePlayers)
    IN  [recommendations |->
            [i \in 1..Len(top) |->
                [playerId |-> top[i].id,
                 playerName |-> top[i].fullName,
                 score |-> TopScore - (i - 1) * ScoreStep,
                 tags |-> IF i = 1 THEN <<"best available">> ELSE <<"value pick">>]],
         strategy |-> "Draft the best available player based on ADP rankings",
         rosterAnalysis |-> analyzeRoster(ctx.userRoster)]

\* the recommendations both fallbacks of parseAIResponse build
bestAvailable(availablePlayers) ==
    LET top == topPlayers(availablePlayers)
    IN  [i \in 1..Len(top) |->
            [playerId |-> top[i].id,
             playerName |-> top[i].fullName,
             score |-> BestAvailableScore,
             tags |-> <<"best available">>]]

\* a recommendation of the provider that carries no playerName
NoName == <<"undefined">>

AiNames ==
    {<<"a", "l">>, <<"A", "l", "i">>, <<"B", "o", "b">>, <<"Z">>, <<>>, NoName}

\* score 0 stands for a recommendation that carries none: both are falsy
AiRecs == [playerName : AiNames, score : {0, 150}]

RecLists == UNION {[1..n -> AiRecs] : n \in 0..MaxRecs}

\* the answers of a provider: prose that is no JSON, or a JSON object (a
\* fenced block is cut down to the JSON inside it before the parse)
AiTexts ==
    {[NoText EXCEPT !.kind = "prose"]}
    \cup [kind : {"json"}, recommendations : RecLists,
          strategy : {"", "ai strategy"}, rosterNeeds : {<<>>, <<"C">>}]

\* a resolution that looks the name up in the whole players table
findPlayerInTable(availablePlayers, playerName) ==
    LET hits == {p \in players :
                    \/ includes(toLowerCase(p.fullName), toLowerCase(playerName))
                    \/ includes(toLowerCase(playerName), toLowerCase(p.fullName))}
    IN  IF hits = {} THEN <<>>
        ELSE <<CHOOSE p \in hits : \A q \in hits : p.id <= q.id>>

\* availablePlayers.find(...): <<the first player that matches>>, or <<>>
findPlayer(availablePlayers, playerName) ==
    LET hits == {i \in DOMAIN availablePlayers :
                    \/ includes(toLowerCase(availablePlayers[i].fullName),
                                toLowerCase(playerName))
                    \/ includes(toLowerCase(playerName),
                                toLowerCase(availablePlayers[i].fullName))}
    IN  IF hits = {} THEN <<>>
        ELSE <<availablePlayers[CHOOSE i \in hits : \A j \in hits : i <= j]>>

\* the loop over parsed.recommendations
RECURSIVE resolve(_, _)
resolve(recs, availablePlayers) ==
    IF recs = <<>> THEN <<>>
    ELSE LET rec == Head(recs)
             player == findPlayer(availablePlayers, rec.playerName)
         IN  (IF player = <<>> THEN <<>>
              ELSE <<[playerId |-> player[1].id,
                      playerName |-> player[1].fullName,
                      score |-> IF rec.score = 0 THEN DefaultScore ELSE rec.score,
                      tags |-> <<>>]>>)
             \o resolve(Tail(recs), availablePlayers)

\* JSON.parse throws on prose; toLowerCase throws on a missing playerName as
\* soon as find calls its predicate, that is when there is a player to test
parseThrows(answer, availablePlayers) ==
    \/ answer.kind = "prose"
    \/ /\ availablePlayers # <<>>
       /\ \E i \in DOMAIN answer.recommendations :
             answer.recommendations[i].playerName = NoName

parseAIResponse(answer, availablePlayers) ==
    IF parseThrows(answer, availablePlayers)
    THEN [recommendations |-> bestAvailable(availablePlayers),
          strategy |-> "Draft the best available player",
          rosterAnalysis |-> [strengths |-> <<>>, needs |-> <<>>]]
    ELSE LET recommendations == resolve(answer.recommendations, availablePlayers)
         IN  [recommendations |->
                 slice(IF recommendations = <<>>
                       THEN bestAvailable(availablePlayers)
                       ELSE recommendations,
                       MaxRecommendations),
              strategy |-> IF answer.strategy = ""
                           THEN "Draft the best available player"
                           ELSE answer.strategy,
              rosterAnalysis |-> [strengths |-> <<>>, needs |-> answer.rosterNeeds]]

\* the way parseAIResponse took
parsePath(answer, availablePlayers) ==
    IF parseThrows(answer, availablePlayers) THEN "parseFailed"
    ELSE IF resolve(answer.recommendations, availablePlayers) = <<>> THEN "noMatch"
    ELSE "provider"

\* a request that writes the status of the draft it serves
RecTouchesDraft ==
    /\ draft' = [draft EXCEPT !.status = "in_progress"]
    /\ UNCHANGED <<draftPicks, nextId, clients, pc, pickData, snap, lastPick,
                   response, trip, updateData, boardVars, players, provider,
                   cancelled, gateVars, session>>

RecUnchanged ==
    UNCHANGED <<draft, draftPicks, nextId, clients, pc, pickData, snap, lastPick,
                response, trip, updateData, boardVars, players, provider,
                cancelled, gateVars, session>>

RecSelectDraft ==
    /\ recPc = "idle"
    /\ recDraft' = draft
    /\ recPc' = "selectPicks"
    /\ UNCHANGED <<picksWithPlayers, context, text, result, path>>
    /\ RecUnchanged

\* the picks of the draft, left-joined with their players
RecSelectPicks ==
    /\ recPc = "selectPicks"
    /\ picksWithPlayers' =
          {[pick |-> p, player |-> CHOOSE row \in players : row.id = p.playerId]
           : p \in draftPicks}
    /\ recPc' = "selectPlayers"
    /\ UNCHANGED <<recDraft, context, text, result, path>>
    /\ RecUnchanged

\* the available players; then the engine up to its call of the provider
RecSelectPlayers ==
    /\ recPc = "selectPlayers"
    /\ LET draftedPlayerIds == {e.pick.playerId : e \in picksWithPlayers}
           rows == IF draftedPlayerIds # {}
                   THEN {row \in players : /\ row.sport = recDraft.sport
                                           /\ row.id \notin draftedPlayerIds}
                   ELSE {row \in players : row.sport = recDraft.sport}
       IN  \E availablePlayers \in Orderings(rows) :
              /\ context' =
                    [availablePlayers |-> availablePlayers,
                     userRoster |-> {e \in picksWithPlayers :
                                        e.pick.teamNumber = recDraft.draftPosition},
                     currentPick |-> recDraft.currentPick,
                     userTeamNumber |-> recDraft.draftPosition]
              /\ IF provider
                 THEN /\ recPc' = "generateText"
                      /\ UNCHANGED <<result, path>>
                 ELSE /\ recPc' = "done"
                      /\ result' = getFallbackRecommendations(context')
                      /\ path' = "noProvider"
    /\ UNCHANGED <<recDraft, picksWithPlayers, text>>
    /\ RecUnchanged

\* the provider answers and the engine parses the answer
RecGenerateText ==
    /\ recPc = "generateText"
    /\ \E answer \in AiTexts :
          /\ text' = answer
          /\ result' = parseAIResponse(answer, context.availablePlayers)
          /\ path' = parsePath(answer, context.availablePlayers)
    /\ recPc' = "done"
    /\ UNCHANGED <<recDraft, picksWithPlayers, context>>
    /\ RecUnchanged

\* an engine without its catch: the provider's error reaches the route
RecGenerateTextRaises ==
    /\ recPc = "generateText"
    /\ recPc' = "failed"
    /\ UNCHANGED <<recDraft, picksWithPlayers, context, text, result, path>>
    /\ RecUnchanged

\* the call of the provider throws
RecGenerateTextFails ==
    /\ recPc = "generateText"
    /\ result' = getFallbackRecommendations(context)
    /\ path' = "generateFailed"
    /\ recPc' = "done"
    /\ UNCHANGED <<recDraft, picksWithPlayers, context, text>>
    /\ RecUnchanged

\* a snake draft some of whose players were picked, and any players table
InitRec ==
    /\ \E drafted \in SUBSET (1..NumNbaPlayers) :
          LET created == [status |-> "setup", currentRound |-> 1, currentPick |-> 1,
                          numTeams |-> MinTeams, rosterSize |-> MinRosterSize,
                          draftPosition |-> 1, draftType |-> "snake",
                          sport |-> "NBA"]
              n == Cardinality(drafted)
          IN  /\ draftPicks = pickedRows(drafted, created)
              /\ draft = IF n = 0 THEN created
                         ELSE [created EXCEPT !.status = "in_progress",
                                              !.currentRound = roundOf(n, MinTeams),
                                              !.currentPick = n + 1]
    /\ nextId = Cardinality(draftPicks) + 1
    /\ clients = {}
    /\ players \in PlayerTables
    /\ RequestsIdle
    /\ BoardIdle
    /\ provider \in BOOLEAN
    /\ recPc = "idle"
    /\ recDraft = NoSnap
    /\ picksWithPlayers = {}
    /\ context = NoContext
    /\ text = NoText
    /\ result = NoResult
    /\ path = "none"
    /\ cancelled = FALSE
    /\ GateIdle

NextRec ==
    \/ RecSelectDraft
    \/ RecSelectPicks
    \/ RecSelectPlayers
    \/ RecGenerateText
    \/ RecGenerateTextFails

SpecRec == InitRec /\ [][NextRec]_vars

\* The handler runs each of its own steps once it can.  Nothing bounds the
\* provider: generateText is called with no timeout and no abort signal, so
\* no fairness is put on its answer or its failure.
SpecRecFair ==
    /\ InitRec
    /\ [][NextRec]_vars
    /\ WF_vars(RecSelectDraft)
    /\ WF_vars(RecSelectPicks)
    /\ WF_vars(RecSelectPlayers)

\* the caller aborts the request while the provider call is pending; the
\* handler reads request.signal nowhere and hands none to generateText
RecCancel ==
    /\ recPc = "generateText"
    /\ ~cancelled
    /\ cancelled' = TRUE
    /\ UNCHANGED <<draft, draftPicks, nextId, clients, pc, pickData, snap,
                   lastPick, response, trip, updateData, boardVars, players,
                   provider, recPc, recDraft, picksWithPlayers, context, text,
                   result, path, gateVars, session>>

NextRecCancel ==
    \/ NextRec
    \/ RecCancel

SpecRecCancel == InitRec /\ [][NextRecCancel]_vars

(***************************************************************************)
(* The pick routes on a draft one pick short of full: the league's picks   *)
(* but the last were made in turn, by players other than the ones the      *)
(* callers name; their rows carry ids handed out earlier.                  *)
(***************************************************************************)
EarlierPicks == MinTeams * MinRosterSize - 1

InitFinal ==
    /\ LET created == [status |-> "setup", currentRound |-> 1, currentPick |-> 1,
                       numTeams |-> MinTeams, rosterSize |-> MinRosterSize,
                       draftPosition |-> 1, draftType |-> "snake",
                       sport |-> "NBA"]
           drafted == (NumPlayers + 1)..(NumPlayers + EarlierPicks)
       IN  /\ draftPicks = {[p EXCEPT !.id = @ - EarlierPicks] :
                               p \in pickedRows(drafted, created)}
           /\ draft = [created EXCEPT !.status = "in_progress",
                                      !.currentRound = roundOf(EarlierPicks, MinTeams),
                                      !.currentPick = EarlierPicks + 1]
           /\ players = {playerRow(i, Null) : i \in Players \cup drafted}
    /\ nextId = 1
    /\ clients = FinalBodies
    /\ RequestsIdle
    /\ BoardIdle
    /\ RecIdle
    /\ GateIdle

SpecFinal == InitFinal /\ [][Next]_vars

(***************************************************************************)
(* analyzeRoster on its own: the engine calls it with the user's roster,   *)
(* here any roster of up to MaxOfPosition players of each position.        *)
(***************************************************************************)
\* positions of players rows: the five with an ideal count, a flex position
\* and a row that carries none
RosterPositions == IdealPositions \o <<"G", "">>

rosterEntry(id, position) ==
    [pick |-> [NoPick EXCEPT !.id = id, !.playerId = id, !.pickNumber = id,
                             !.teamNumber = 1, !.round = 1, !.isUserPick = TRUE],
     player |-> [playerRow(id, Null) EXCEPT !.position = position]]

\* the positions of a roster with count[k] players of RosterPositions[k]
RECURSIVE positionsOf(_, _)
positionsOf(count, k) ==
    IF k = 0 THEN <<>>
    ELSE positionsOf(count, k - 1) \o [i \in 1..count[k] |-> RosterPositions[k]]

Rosters ==
    {LET position == positionsOf(count, Len(RosterPositions))
     IN  {rosterEntry(i, position[i]) : i \in DOMAIN position}
     : count \in [DOMAIN RosterPositions -> 0..MaxOfPosition]}

\* the engine calls analyzeRoster(context.userRoster)
RosterAnalyze ==
    /\ recPc = "idle"
    /\ result' = [NoResult EXCEPT !.rosterAnalysis = analyzeRoster(context.userRoster)]
    /\ recPc' = "done"
    /\ UNCHANGED <<recDraft, picksWithPlayers, context, text, path>>
    /\ RecUnchanged

InitRoster ==
    /\ draft \in [status : {"setup"}, currentRound : {1}, currentPick : {1},
                  numTeams : {MinTeams}, rosterSize : {MinRosterSize},
                  draftPosition : 1..MaxDraftPosition, draftType : {"snake"},
                  sport : {"NBA"}]
    /\ draftPicks = {}
    /\ nextId = 1
    /\ clients = {}
    /\ players = {playerRow(i, Null) : i \in Players}
    /\ RequestsIdle
    /\ BoardIdle
    /\ provider = FALSE
    /\ recPc = "idle"
    /\ recDraft = NoSnap
    /\ picksWithPlayers = {}
    /\ \E roster \in Rosters : context = [NoContext EXCEPT !.userRoster = roster]
    /\ text = NoText
    /\ result = NoResult
    /\ path = "none"
    /\ cancelled = FALSE
    /\ GateIdle

NextRoster == RosterAnalyze

SpecRoster == InitRoster /\ [][NextRoster]_vars

(***************************************************************************)
(* GET /api/drafts/[id]/recommendations, its gates: the plan check and the *)
(* AI rate limit of one user.  The limiter is an async function with no    *)
(* await in its body: called when the plan check resumes, it runs to its   *)
(* end in the same turn of the event loop.  Requests interleave at their   *)
(* awaits.  GateServe stands for the rest of the handler, from the select  *)
(* of the draft on (RecSelectDraft ... of SpecRec).                        *)
(***************************************************************************)
\* the instants at which Date.now() is read: both edges of each window
Times == UNION {{k * windowMs, k * windowMs + 1} : k \in 0..MaxWindows}

\* the pre-configured limiters of the recommendations route and of the API
aiRateLimit ==
    [windowMs |-> windowMs, maxRequests |-> maxRequests, keyPrefix |-> "ai"]

apiRateLimit ==
    [windowMs |-> apiWindowMs, maxRequests |-> apiMaxRequests, keyPrefix |-> "api"]

\* the user whose recommendation requests are at the gates
gateUserId == "u1"

\* a limiter with no keyPrefix: the key is the identifier alone
keyOfIdentifier(config, identifier) == identifier

\* config.keyPrefix ? `${config.keyPrefix}:${identifier}` : identifier
keyOf(config, identifier) ==
    IF config.keyPrefix = "" THEN identifier
    ELSE config.keyPrefix \o ":" \o identifier

\* store.get(key), NoEntry for undefined
get(store, key) == IF key \in DOMAIN store THEN store[key] ELSE NoEntry

\* store.set(key, value)
set(store, key, value) ==
    [k \in DOMAIN store \cup {key} |-> IF k = key THEN value ELSE store[k]]

\* a limiter that lets one request more through
limitReachedLate(current, config) == current.count > config.maxRequests

\* current.count >= config.maxRequests
limitReached(current, config) == current.count >= config.maxRequests

\* !current || current.resetTime < now
windowOver(current) == current = NoEntry \/ current.resetTime < now

\* the limiter createRateLimit(config) returns, called with identifier:
\* whether it returns (admitted) or throws, and the Map it leaves
createRateLimit(config, identifier) ==
    LET key == keyOf(config, identifier)
        current == get(rateLimitStore, key)
    IN  IF windowOver(current)
        THEN [admitted |-> TRUE,
              store |-> set(rateLimitStore, key,
                            [count |-> 1, resetTime |-> now + config.windowMs])]
        ELSE IF limitReached(current, config)
        THEN [admitted |-> FALSE, store |-> rateLimitStore]
        ELSE [admitted |-> TRUE,
              store |-> set(rateLimitStore, key,
                            [current EXCEPT !.count = @ + 1])]

\* the window the history follows is in force
WindowLive == window.admitted > 0 /\ now <= window.end

GateUnchanged ==
    UNCHANGED <<draft, draftPicks, nextId, clients, pc, pickData, snap, lastPick,
                response, trip, updateData, boardVars, recVars, session>>

\* session and draft id are good; checkAIAccess is called and awaits the plan
GateCheckAccess(r) ==
    /\ gatePc[r] = "idle"
    /\ gatePc' = [gatePc EXCEPT ![r] = "checkAIAccess"]
    /\ UNCHANGED <<gateResponse, rateLimitStore, now, window>>
    /\ GateUnchanged

\* a handler that counts the request before it looks at the plan
GateRateLimitFirst(r) ==
    /\ gatePc[r] = "checkAIAccess"
    /\ rateLimitStore' = createRateLimit(aiRateLimit, gateUserId).store
    /\ gatePc' = [gatePc EXCEPT ![r] = "idle"]
    /\ gateResponse' = [gateResponse EXCEPT ![r] = "UpgradeRequired"]
    /\ UNCHANGED <<now, window>>
    /\ GateUnchanged

\* the plan is known: refuse a free plan, else run the limiter
GateRateLimit(r) ==
    /\ gatePc[r] = "checkAIAccess"
    /\ \E isProPlan \in BOOLEAN :
          IF ~isProPlan
          THEN /\ gatePc' = [gatePc EXCEPT ![r] = "idle"]
               /\ gateResponse' = [gateResponse EXCEPT ![r] = "UpgradeRequired"]
               /\ UNCHANGED <<rateLimitStore, window>>
          ELSE LET limited == createRateLimit(aiRateLimit, gateUserId)
               IN  /\ rateLimitStore' = limited.store
                   /\ IF limited.admitted
                      THEN /\ gatePc' = [gatePc EXCEPT ![r] = "selectDraft"]
                           /\ window' = IF WindowLive
                                        THEN [window EXCEPT !.admitted = @ + 1]
                                        ELSE [end |-> now + windowMs, admitted |-> 1]
                           /\ UNCHANGED gateResponse
                      ELSE /\ gatePc' = [gatePc EXCEPT ![r] = "idle"]
                           /\ gateResponse' =
                                 [gateResponse EXCEPT ![r] = "RateLimited"]
                           /\ UNCHANGED window
    /\ UNCHANGED now
    /\ GateUnchanged

\* the rest of the handler: draft, picks, players, engine, response
GateServe(r) ==
    /\ gatePc[r] = "selectDraft"
    /\ gatePc' = [gatePc EXCEPT ![r] = "idle"]
    /\ gateResponse' = [gateResponse EXCEPT ![r] = "Recommendations"]
    /\ UNCHANGED <<rateLimitStore, now, window>>
    /\ GateUnchanged

\* the cleanup timer drops the entries whose window is over
CleanupStore ==
    /\ \E key \in DOMAIN rateLimitStore : rateLimitStore[key].resetTime < now
    /\ rateLimitStore' =
          [key \in {k \in DOMAIN rateLimitStore : ~(rateLimitStore[k].resetTime < now)}
              |-> rateLimitStore[key]]
    /\ UNCHANGED <<gatePc, gateResponse, now, window>>
    /\ GateUnchanged

\* time passes
Tick ==
    /\ \E t \in Times : t > now /\ now' = t
    /\ UNCHANGED <<gatePc, gateResponse, rateLimitStore, window>>
    /\ GateUnchanged

InitGate ==
    /\ draft \in [status : {"setup"}, currentRound : {1}, currentPick : {1},
                  numTeams : {MinTeams}, rosterSize : {MinRosterSize},
                  draftPosition : 1..MaxDraftPosition, draftType : {"snake"},
                  sport : {"NBA"}]
    /\ draftPicks = {}
    /\ nextId = 1
    /\ clients = {}
    /\ players = {playerRow(i, Null) : i \in Players}
    /\ RequestsIdle
    /\ BoardIdle
    /\ RecIdle
    /\ GateIdle

NextGate ==
    \/ \E r \in GateReqs :
          \/ GateCheckAccess(r)
          \/ GateRateLimit(r)
          \/ GateServe(r)
    \/ CleanupStore
    \/ Tick

SpecGate == InitGate /\ [][NextGate]_vars

(***************************************************************************)
(* The limiter's Map with several keys: next to the recommendation         *)
(* requests of the user, another user calls aiRateLimit and the user       *)
(* calls apiRateLimit, each at most MaxOtherCalls times in one window.     *)
(***************************************************************************)
OtherCallers ==
    {[limiter |-> aiRateLimit, identifier |-> "u2"],
     [limiter |-> apiRateLimit, identifier |-> gateUserId]}

KeyReqs == {1}

\* a call of a limiter for another key
OtherRateLimit(caller) ==
    /\ LET current == get(rateLimitStore, keyOf(caller.limiter, caller.identifier))
       IN  windowOver(current) \/ current.count < MaxOtherCalls
    /\ rateLimitStore' = createRateLimit(caller.limiter, caller.identifier).store
    /\ UNCHANGED <<gatePc, gateResponse, now, window>>
    /\ GateUnchanged

NextKeys ==
    \/ \E r \in KeyReqs :
          \/ GateCheckAccess(r)
          \/ GateRateLimit(r)
          \/ GateServe(r)
    \/ \E caller \in OtherCallers : OtherRateLimit(caller)
    \/ CleanupStore
    \/ Tick

SpecKeys == InitGate /\ [][NextKeys]_vars

(***************************************************************************)
(* Properties.                                                             *)
(***************************************************************************)
Quiescent == \A r \in Reqs : pc[r] = "idle"

Inserted == draftPicks' \ draftPicks

\* C1: a draft never holds two DraftPick rows for the same player, whatever
\* the interleaving of the MakePick requests that inserted them.
C1_OnePickPerPlayer ==
    \A p, q \in draftPicks : p.playerId = q.playerId => p = q

\* C2: of the MakePick requests in flight together for the same pickNumber at
\* most one inserts its row; the others fail (Conflict) without inserting a
\* row or touching the draft.
C2_OneWinnerPerSlot ==
    \A r, q \in Reqs :
        /\ r # q
        /\ pc[r] \in {"updateDraft", "completeDraft"}
        /\ pc[q] \in {"updateDraft", "completeDraft"}
        => pickData[r].pickNumber # pickData[q].pickNumber

\* C3: the pickNumbers of the recorded picks are exactly 1..k, k the number of
\* recorded picks: contiguous from 1, no gap, no duplicate.
C3_ContiguousPickNumbers ==
    {p.pickNumber : p \in draftPicks} = 1..Cardinality(draftPicks)

\* C4: whenever no request is in flight, currentPick - 1 is the number of
\* DraftPick rows recorded for the draft.
C4_CurrentPickCountsPicks ==
    Quiescent => draft.currentPick - 1 = Cardinality(draftPicks)

\* C5: the pick-row change and the draft-counter change of MakePick and of
\* UndoLastPick are one atomic step: no step changes the rows without moving
\* currentPick, and none moves currentPick without changing the rows.
C5_RowAndCountersInOneStep ==
    [][(draftPicks' # draftPicks) <=> (draft'.currentPick # draft.currentPick)]_vars

\* C6: a MakePick whose pickNumber differs from the draft's currentPick is
\* rejected: no row is inserted for any other pickNumber.
C6_OnlyCurrentPickInserted ==
    [][\A p \in Inserted : p.pickNumber = draft.currentPick]_vars

\* C7: in a snake or linear draft a MakePick whose teamNumber is not the seat
\* computed for its pickNumber is rejected (OutOfTurn) and records nothing.
C7_OnlySeatInserted ==
    [][\A p \in Inserted :
          draft.draftType \in {"snake", "linear"}
          => p.teamNumber = seat(draft.draftType, draft.numTeams, p.pickNumber)]_vars

\* C8: no MakePick or UndoLastPick step moves the draft out of status
\* completed or abandoned.
C8_TerminalStatusKept ==
    [][draft.status \in {"completed", "abandoned"}
       => draft'.status = draft.status]_vars

\* C9: the MakePick of pickNumber numTeams x rosterSize leaves the draft
\* completed when it responds, and the draft is never completed while fewer
\* than numTeams x rosterSize picks are recorded.
C9_CompletedExactlyWhenFull ==
    /\ [](draft.status = "completed"
          => Cardinality(draftPicks) >= draft.numTeams * draft.rosterSize)
    /\ [][\A r \in Reqs :
            /\ pickData[r].pickNumber = draft.numTeams * draft.rosterSize
            /\ response'[r] = "Created"
            /\ pc[r] # "idle"
            => draft'.status = "completed"]_vars

\* C10: UndoLastPick run right after a successful MakePick puts currentPick
\* and currentRound back to the values the MakePick found and removes the row
\* it inserted.  Stated for the picks made in order with the round the pick
\* order gives them (pickNumber = currentPick, round = ceil(pickNumber /
\* numTeams)), first picks of a round among them.
C10_UndoRestoresCounters ==
    /\ trip.stage = "undone"
    /\ trip.pickNumber = trip.currentPick
    /\ trip.round = roundOf(trip.pickNumber, draft.numTeams)
    => /\ draft.currentPick = trip.currentPick
       /\ draft.currentRound = trip.currentRound
       /\ \A p \in draftPicks : p.id # trip.id

\* C11: currentPick goes up by exactly 1 with each successful MakePick, down
\* by exactly 1 with each successful UndoLastPick, and a request that is
\* refused leaves it as it is.
C11_CurrentPickStepsByOne ==
    [][\A r \in Reqs :
          /\ pc[r] = "updateDraft" /\ pc'[r] # "updateDraft"
             => draft'.currentPick = draft.currentPick + 1
          /\ pc[r] = "undoUpdateDraft" /\ pc'[r] = "idle"
             => draft'.currentPick = draft.currentPick - 1
          /\ pc[r] \in {"idle", "selectExistingPick"} /\ pc'[r] = "idle"
             /\ response'[r] # response[r]
             => draft'.currentPick = draft.currentPick]_vars

\* C12: the successful MakePick of pick p leaves currentPick = p + 1 and
\* currentRound = ceil((p + 1) / numTeams), the round of the next pick; stated
\* for the callers that send the round of pick p itself.
C12_CountersOfNextPick ==
    [][\A r \in Reqs :
          /\ pc[r] = "updateDraft" /\ pc'[r] # "updateDraft"
          /\ pickData[r].round = roundOf(pickData[r].pickNumber, draft.numTeams)
          => /\ draft'.currentPick = pickData[r].pickNumber + 1
             /\ draft'.currentRound =
                    roundOf(pickData[r].pickNumber + 1, draft.numTeams)]_vars

\* C13: an UndoLastPick gets past its checks only when the pick it read as the
\* last one has isUserPick = true and the teamNumber of the requester's seat
\* (the draft's draftPosition); otherwise it is refused (ForbiddenUndo).
C13_UndoOnlyOwnSeat ==
    \A r \in Reqs :
        pc[r] \in {"deletePick", "undoUpdateDraft"}
        => /\ lastPick[r].isUserPick
           /\ lastPick[r].teamNumber = draft.draftPosition

\* C14: a recorded DraftPick has isUserPick = true exactly when its teamNumber
\* is the draft's draftPosition, whatever flag the caller sent.
C14_IsUserPickIffOwnSeat ==
    \A p \in draftPicks : p.isUserPick <=> p.teamNumber = draft.draftPosition

\* C15: a row leaves draft_picks only while it carries the highest pickNumber
\* of the draft at the moment it is deleted.
C15_OnlyLastPickDeleted ==
    [][\A p \in draftPicks \ draftPicks' :
          \A q \in draftPicks : q.pickNumber <= p.pickNumber]_vars

\* C19: every recorded DraftPick of a linear draft has the teamNumber
\* ((pickNumber - 1) mod numTeams) + 1, the seat of its pick.
C19_LinearPicksInSeatOrder ==
    draft.draftType = "linear"
    => \A p \in draftPicks :
          p.teamNumber = ((p.pickNumber - 1) % draft.numTeams) + 1

\* C16: the draft's currentRound, currentPick and status change only in the
\* draft update of a MakePick or of an UndoLastPick; no other step of any
\* request (the draft update operation PATCH in particular) changes them.
C16_CountersChangedByPicksOnly ==
    [][\/ /\ draft'.currentRound = draft.currentRound
          /\ draft'.currentPick = draft.currentPick
          /\ draft'.status = draft.status
       \/ \E r \in Reqs :
             /\ pc[r] \in {"updateDraft", "completeDraft", "undoUpdateDraft"}
             /\ pc'[r] # pc[r]]_vars

\* C17: draftPosition <= numTeams in every reachable state of a draft, after
\* its creation and after any sequence or interleaving of update requests.
C17_DraftPositionWithinTeams == draft.draftPosition <= draft.numTeams

\* C18: in a snake draft of N teams the seat of overall pick p, with
\* round = ceil(p/N) and pickInRound = p - (round-1)N, is pickInRound in odd
\* rounds and N - pickInRound + 1 in even rounds; an odd round and the round
\* after it read the same forwards and backwards; with N = 12 pick 19 is
\* seat 6, the page's user.  Stated of every entry of the board being built,
\* of the board the page keeps, and of the board's seat rule for every
\* league size the create schema admits.
C18_SnakeSeats ==
    /\ \A i \in DOMAIN board :
          LET p == board[i].pick
              round == roundOf(p, pageNumTeams)
              pickInRound == p - (round - 1) * pageNumTeams
          IN  /\ p = i
              /\ board[i].round = round
              /\ board[i].teamIndex + 1 =
                    IF round % 2 = 1 THEN pickInRound
                    ELSE pageNumTeams - pickInRound + 1
              /\ p = 19 => board[i].teamIndex + 1 = 6
    /\ \A i, j \in DOMAIN board :
          /\ board[i].round % 2 = 1
          /\ board[j].round = board[i].round + 1
          /\ i + j = 2 * board[i].round * pageNumTeams + 1
          => board[j].teamIndex = board[i].teamIndex
    /\ draftBoard # <<>> => draftBoard = board /\ isUserTurn(19)
    /\ \A n \in MinTeams..MaxTeams : \A k \in 1..n :
          /\ teamIndex(1, k, n) + 1 = k
          /\ teamIndex(2, k, n) + 1 = n - k + 1
          /\ teamIndex(2, n - k + 1, n) = teamIndex(1, k, n)

\* C18 witness: the page keeps the whole board, two rounds and more, and
\* pick 19 on it belongs to the user's seat.
C18_Witness ==
    /\ Len(draftBoard) = numRounds * pageNumTeams
    /\ draftBoard[19].pick = 19
    /\ draftBoard[19].round = 2
    /\ draftBoard[19].teamIndex = userTeamIndex

\* C20: every recommendation the recommendations request returns, whether
\* resolved from the provider's answer or built by a fallback, names a
\* player of the available pool given to the engine, and that pool holds
\* only players of the draft's sport with no DraftPick in the draft.
C20_RecommendationsFromPool ==
    recPc = "done"
    => /\ \A i \in DOMAIN result.recommendations :
             \E j \in DOMAIN context.availablePlayers :
                context.availablePlayers[j].id = result.recommendations[i].playerId
       /\ \A j \in DOMAIN context.availablePlayers :
             /\ context.availablePlayers[j] \in players
             /\ context.availablePlayers[j].sport = draft.sport
             /\ \A p \in draftPicks :
                   p.playerId # context.availablePlayers[j].id

\* C20 witness: the provider names a player already drafted, and the engine
\* returns a recommendation resolved from that answer.
C20_Witness ==
    /\ recPc = "done"
    /\ path = "provider"
    /\ result.recommendations # <<>>
    /\ \E i \in DOMAIN text.recommendations : \E p \in draftPicks :
          toLowerCase(text.recommendations[i].playerName)
              = toLowerCase(fullNameOf(p.playerId))

\* the adp of the players row a recommendation names
adpOf(rec) == (CHOOSE row \in players : row.id = rec.playerId).adp

\* the players of the pool given to the engine that carry an adp
Ranked == {i \in DOMAIN context.availablePlayers :
              context.availablePlayers[i].adp # Null}

\* the request returned by way of one of the engine's fallbacks
FellBack == recPc = "done"
            /\ path \in {"noProvider", "generateFailed", "parseFailed", "noMatch"}

\* C22: with no provider configured the request returns exactly the
\* min(5, n) available players of lowest non-null ADP, in ascending ADP
\* order, with the scores 80, 75, 70, 65, 60, the first tagged "best
\* available" and the others "value pick".
C22_FallbackRanking ==
    recPc = "done" /\ path = "noProvider"
    => LET recs == result.recommendations
       IN  /\ Len(recs) = IF Cardinality(Ranked) < 5 THEN Cardinality(Ranked) ELSE 5
           /\ \A i, j \in DOMAIN recs :
                 i < j => /\ recs[i].playerId # recs[j].playerId
                          /\ adpOf(recs[i]) <= adpOf(recs[j])
           /\ \A i \in DOMAIN recs :
                 /\ \E k \in Ranked :
                       context.availablePlayers[k].id = recs[i].playerId
                 /\ \A k \in Ranked :
                       \/ \E j \in DOMAIN recs :
                             recs[j].playerId = context.availablePlayers[k].id
                       \/ adpOf(recs[i]) <= context.availablePlayers[k].adp
                 /\ recs[i].score = 80 - 5 * (i - 1)
                 /\ recs[i].tags = IF i = 1 THEN <<"best available">>
                                   ELSE <<"value pick">>

\* C23: whichever fallback the engine takes (no provider, provider call
\* failed, answer unparseable, no usable recommendation in the answer), the
\* recommendations are the one ranking of the no-provider fallback: the same
\* players, scores and tags.
C23_OneFallbackRanking ==
    FellBack
    => result.recommendations = getFallbackRecommendations(context).recommendations

\* C24: with at least one available player of the draft's sport, the request
\* returns at least one recommendation.
C24_NeverEmpty ==
    recPc = "done" /\ context.availablePlayers # <<>>
    => result.recommendations # <<>>

\* C30: the result carries the roster analysis of the requester's roster,
\* the same on the provider path and on every fallback.
C30_RosterAnalysisOnEveryPath ==
    recPc = "done" => result.rosterAnalysis = analyzeRoster(context.userRoster)

\* C21: the engine never hands an error of the provider to its caller: with
\* no provider configured, when the provider call fails and when the answer
\* cannot be parsed, the request ends with a fallback result, a fixed
\* strategy and the best available players by ADP.
C21_ProviderNeverRaises ==
    [][recPc' # recPc /\ (recPc = "generateText" \/ path' = "noProvider")
       => /\ recPc' = "done"
          /\ path' \in {"noProvider", "generateFailed", "parseFailed"}
             => /\ result'.strategy \in
                      {"Draft the best available player based on ADP rankings",
                       "Draft the best available player"}
                /\ LET top == topPlayers(context'.availablePlayers)
                   IN  /\ Len(result'.recommendations) = Len(top)
                       /\ \A i \in DOMAIN top :
                             result'.recommendations[i].playerId = top[i].id]_vars

\* C21 witness: the provider's answer was JSON with a recommendation that
\* carries no playerName; the parse threw and the request returned the
\* fallback list.
C21_Witness ==
    /\ recPc = "done"
    /\ path = "parseFailed"
    /\ text.kind = "json"
    /\ result.recommendations # <<>>

\* C25: a recommendation request changes nothing of the draft: from its
\* reads to its response the drafts row (currentPick, currentRound, status)
\* and the set of DraftPick rows are what the request read, on every path.
C25_RequestReadsOnly ==
    /\ recPc \in {"selectPicks", "selectPlayers", "generateText", "done"}
       => draft = recDraft
    /\ recPc \in {"selectPlayers", "generateText", "done"}
       => draftPicks = {e.pick : e \in picksWithPlayers}

\* C25 witness: a request on a draft under way has returned after the
\* provider call failed.
C25_Witness ==
    /\ recPc = "done"
    /\ path = "generateFailed"
    /\ draft.status = "in_progress"
    /\ draftPicks # {}

\* C28: every recommendation request eventually returns; a provider that
\* never answers is cut off and the request goes on to the fallback.
C28_EventuallyReturns == <>(recPc = "done")

\* C29: once the caller has cancelled a request whose provider call is
\* pending, the call is abandoned: the request takes no fallback and
\* returns no recommendations.
C29_CancelledTakesNoFallback ==
    cancelled /\ recPc = "done"
    => /\ path \notin {"generateFailed", "parseFailed", "noMatch"}
       /\ result.recommendations = <<>>

\* the limiter let request r through in this step
Admitted(r) == gatePc[r] = "checkAIAccess" /\ gatePc'[r] = "selectDraft"

\* the limiter turned request r away in this step
Rejected(r) ==
    /\ gatePc[r] = "checkAIAccess"
    /\ gatePc'[r] = "idle"
    /\ gateResponse'[r] = "RateLimited"

\* the plan check turned request r away in this step
Refused(r) ==
    /\ gatePc[r] = "checkAIAccess"
    /\ gatePc'[r] = "idle"
    /\ gateResponse'[r] = "UpgradeRequired"

\* C26: under any interleaving of one user's concurrent requests, a window
\* admits exactly its first maxRequests (20) requests and turns every later
\* one away, and the limiter's count is the number it admitted: no
\* increment is lost or made twice.
C26_FirstTwentyAdmitted ==
    [][\A r \in GateReqs :
          /\ Admitted(r)
             => /\ ~WindowLive \/ window.admitted < maxRequests
                /\ get(rateLimitStore', keyOf(aiRateLimit, gateUserId)).count
                      = window'.admitted
                /\ window'.admitted <= maxRequests
          /\ Rejected(r)
             => /\ WindowLive
                /\ window.admitted = maxRequests
                /\ rateLimitStore' = rateLimitStore]_vars

\* C26 witness: the window in force has admitted its 20 requests, one
\* request has been turned away and another, admitted, is still running.
C26_Witness ==
    /\ WindowLive
    /\ window.admitted = maxRequests
    /\ get(rateLimitStore, keyOf(aiRateLimit, gateUserId)).count = maxRequests
    /\ \E r, q \in GateReqs :
          /\ gateResponse[r] = "RateLimited"
          /\ gatePc[r] = "idle"
          /\ gatePc[q] = "selectDraft"

\* C27: a request whose plan check answers allowed = false ends there with
\* the refusal: the step counts nothing in the rate limiter, and the request
\* goes on to no draft read and no engine call.
C27_RefusedBeforeAnyWork ==
    [][\A r \in GateReqs :
          Refused(r)
          => /\ rateLimitStore' = rateLimitStore
             /\ window' = window
             /\ gatePc'[r] # "selectDraft"
             /\ UNCHANGED <<draft, draftPicks, recVars>>]_vars

\* C27 witness: a request was refused for its plan while the limiter holds
\* a count and another request, admitted, is running.
C27_Witness ==
    \E r, q \in GateReqs :
        /\ gateResponse[r] = "UpgradeRequired"
        /\ gatePc[r] = "idle"
        /\ gatePc[q] = "selectDraft"
        /\ get(rateLimitStore, keyOf(aiRateLimit, gateUserId)).count > 0

\* the players of the roster analysed that play position pos
rosterCount(pos) ==
    Cardinality({e \in context.userRoster : e.player.position = pos})

\* the positions short by two or more
NeedPositions ==
    {pos \in DOMAIN IDEAL_ROSTER_COMPOSITION :
        rosterCount(pos) < IDEAL_ROSTER_COMPOSITION[pos] - 1}

\* C31: in the analysis of any roster a position with an ideal count is a
\* strength iff the roster holds at least that many of it and a need iff it
\* holds fewer than the ideal count minus one (one short is neither); when
\* no position is a need, needs is the one entry "Roster is well-balanced",
\* and needs is never empty.
C31_RosterAnalysis ==
    recPc = "done"
    => LET strengths == result.rosterAnalysis.strengths
           needs == result.rosterAnalysis.needs
       IN  /\ \A pos \in DOMAIN IDEAL_ROSTER_COMPOSITION :
                 (\E i \in DOMAIN strengths : strengths[i].pos = pos)
                 <=> rosterCount(pos) >= IDEAL_ROSTER_COMPOSITION[pos]
           /\ \A i \in DOMAIN strengths :
                 strengths[i].count = rosterCount(strengths[i].pos)
           /\ needs # <<>>
           /\ IF NeedPositions = {}
              THEN Len(needs) = 1 /\ needs[1] = "Roster is well-balanced"
              ELSE /\ Len(needs) = Cardinality(NeedPositions)
                   /\ {needs[i].pos : i \in DOMAIN needs} = NeedPositions

\* C31 witness: an analysed roster with a strength, a position one short and
\* no need, so that needs is the balanced entry alone.
C31_Witness ==
    /\ recPc = "done"
    /\ rosterCount("PG") = 2
    /\ rosterCount("SG") = 1
    /\ NeedPositions = {}
    /\ Len(result.rosterAnalysis.strengths) = 1
    /\ result.rosterAnalysis.needs = <<"Roster is well-balanced">>

\* the pool players whose name and the item's name contain one another
MatchesOf(playerName) ==
    {i \in DOMAIN context.availablePlayers :
        \/ includes(toLowerCase(context.availablePlayers[i].fullName),
                    toLowerCase(playerName))
        \/ includes(toLowerCase(playerName),
                    toLowerCase(context.availablePlayers[i].fullName))}

\* the items of the provider's answer that match a pool player, in its order
ResolvedItems ==
    SelectSeq(text.recommendations, LAMBDA rec : MatchesOf(rec.playerName) # {})

\* the first pool player that matches the item
FirstMatch(rec) ==
    context.availablePlayers[CHOOSE i \in MatchesOf(rec.playerName) :
                                \A j \in MatchesOf(rec.playerName) : i <= j]

\* C32: when the provider's answer is parsed and some item of it matches a
\* pool player, the result holds exactly the matching items, in the
\* provider's order and capped at 5, each as the first pool player that
\* matches it; an item that matches no player is dropped and does not fail
\* the answer.
C32_ResolvedItemsKept ==
    recPc = "done" /\ text.kind = "json" /\ ResolvedItems # <<>>
    => LET kept == slice(ResolvedItems, MaxRecommendations)
       IN  /\ Len(result.recommendations) = Len(kept)
           /\ \A i \in DOMAIN kept :
                 /\ result.recommendations[i].playerId = FirstMatch(kept[i]).id
                 /\ result.recommendations[i].playerName = FirstMatch(kept[i]).fullName

\* C32 for answers whose items all carry a playerName
C32_NamedItemsKept ==
    (\A i \in DOMAIN text.recommendations : text.recommendations[i].playerName # NoName)
    => C32_ResolvedItemsKept

\* C33: a MakePick on a completed draft is refused (DraftComplete) and one
\* that names no player is refused (NotFound); neither inserts a row nor
\* changes the draft, and a MakePick inserts and writes nothing either once
\* the draft was completed by another MakePick after it read the draft.
C33_NoPickOnCompletedDraft ==
    [][/\ \A r \in Reqs :
             /\ pc[r] = "idle" /\ pc' = pc
             /\ response'[r] \in {"DraftComplete", "PlayerNotFound"}
             => UNCHANGED <<draft, draftPicks>>
       /\ draft.status = "completed"
          => /\ Inserted = {}
             /\ \A r \in Reqs :
                   pc[r] \in {"updateDraft", "completeDraft"} /\ pc'[r] # pc[r]
                   => draft' = draft]_vars

\* C34: the status of a draft goes from in_progress to setup only in the
\* draft update of an UndoLastPick whose pick has pickNumber 1 and is gone
\* from the draft; the draft update of an UndoLastPick of any other pick
\* leaves the status in_progress; an UndoLastPick gets past its read only if
\* the draft has a pick, and its refusal NoPicksToUndo changes nothing.
C34_SetupOnlyByUndoOfFirstPick ==
    [][/\ draft.status = "in_progress" /\ draft'.status = "setup"
          => \E r \in Reqs :
                /\ pc[r] = "undoUpdateDraft" /\ pc'[r] = "idle"
                /\ lastPick[r].pickNumber = 1
                /\ lastPick[r] \notin draftPicks'
       /\ \A r \in Reqs :
             /\ pc[r] = "undoUpdateDraft" /\ pc'[r] = "idle"
                /\ lastPick[r].pickNumber # 1
                => draft'.status = "in_progress"
             /\ pc[r] = "idle" /\ pc'[r] = "deletePick" => draftPicks # {}
             /\ pc[r] = "idle" /\ pc' = pc /\ response'[r] = "NoPicksToUndo"
                => UNCHANGED <<draft, draftPicks>>]_vars

\* C35: every recorded DraftPick has a teamNumber in 1..numTeams of its
\* draft: a MakePick whose teamNumber is greater than the draft's numTeams
\* is rejected and records nothing.
C35_TeamNumberWithinLeague ==
    \A p \in draftPicks : p.teamNumber \in 1..draft.numTeams

\* C36: every recommendation the request returns has a score in 0..100,
\* whatever score the provider's answer gave the item.
C36_ScoreInRange ==
    recPc = "done"
    => \A i \in DOMAIN result.recommendations :
          result.recommendations[i].score \in 0..100

\* C37: a draft never holds more DraftPick rows than numTeams x rosterSize,
\* after any sequence or interleaving of MakePick requests, two requests
\* racing on the final slot and requests with any pickNumber among them.
C37_RowsWithinLeague ==
    Cardinality(draftPicks) <= draft.numTeams * draft.rosterSize

\* C38: with no request in flight, after any sequence of MakePick and
\* UndoLastPick requests, the draft's status is setup if and only if the
\* draft has no recorded DraftPick.
C38_SetupIffNoPicks ==
    Quiescent => (draft.status = "setup" <=> draftPicks = {})

GateKey == keyOf(aiRateLimit, gateUserId)

GateEntry == get(rateLimitStore, GateKey)

\* C40: the window of a key: a rejected request leaves the count (the whole
\* Map) as it is; while the window is in force an admitted request adds one
\* to the count and keeps resetTime; the first request after resetTime has
\* passed is admitted, never rejected, and starts a window with count 1;
\* and keys do not touch each other: a request of one key changes no entry
\* of another key, its fate is decided by its own entry alone, and its entry
\* changes only through its own requests and the cleanup of an expired one.
C40_WindowLifecyclePerKey ==
    [][/\ \A r \in GateReqs :
             /\ Rejected(r)
                => /\ rateLimitStore' = rateLimitStore
                   /\ GateEntry # NoEntry
                   /\ ~(GateEntry.resetTime < now)
                   /\ GateEntry.count >= maxRequests
             /\ Admitted(r)
                => /\ get(rateLimitStore', GateKey) =
                         IF GateEntry = NoEntry \/ GateEntry.resetTime < now
                         THEN [count |-> 1, resetTime |-> now + windowMs]
                         ELSE [GateEntry EXCEPT !.count = @ + 1]
                   /\ GateEntry # NoEntry /\ ~(GateEntry.resetTime < now)
                      => GateEntry.count < maxRequests
                   /\ \A key \in (DOMAIN rateLimitStore \cup DOMAIN rateLimitStore')
                                    \ {GateKey} :
                         get(rateLimitStore', key) = get(rateLimitStore, key)
       /\ gatePc' = gatePc /\ get(rateLimitStore', GateKey) # GateEntry
          => /\ get(rateLimitStore', GateKey) = NoEntry
             /\ GateEntry.resetTime < now]_vars

\* C40 witness: the user's request before this one was rejected; its window
\* has passed since, and this request is admitted into a new window with
\* count 1, while the Map holds counts of the other user's key and of the
\* other limiter's key.
C40_Witness ==
    \E r \in GateReqs :
        /\ gatePc[r] = "selectDraft"
        /\ gateResponse[r] = "RateLimited"
        /\ GateEntry = [count |-> 1, resetTime |-> now + windowMs]
        /\ get(rateLimitStore, keyOf(aiRateLimit, "u2")).count = MaxOtherCalls
        /\ get(rateLimitStore, keyOf(apiRateLimit, gateUserId)).count >= 1

=============================================================================
